---- MODULE Spec2Model ----
(***************************************************************************)
(* realpath-ext: allocation-free path canonicalization.                    *)
(*                                                                         *)
(* Byte strings are sequences of one-character strings; NUL is the byte 0. *)
(* A call of realpath_raw_inner is a state machine: one step per iteration *)
(* of the drain loop, one step for the post-processing.  The operating     *)
(* system (readlink, stat, getcwd, sysconf) is a small table of file       *)
(* systems walked the way the kernel walks a path.                         *)
(***************************************************************************)
EXTENDS Integers, Sequences, FiniteSets, TLC

\* ------------------------------------------------------------------ bytes

SL  == "/"
DOT == "."
NUL == "NUL"

\* The bytes input paths are drawn from (NUL apart).
PathBytes == {SL, DOT, "a", "b"}

\* Longest input path the model draws.
MaxLen == 4

\* Longest input path with a NUL byte in it the model draws.
MaxNulLen == 2

PATH_MAX == 4096

TMP_SLACK == 100

SYMLOOP_FALLBACK == 40

U16_MAX == 65535

\* Longest input path the model draws for normpath_raw.
MaxNormLen == 6

\* Capacity of both buffers in the calls made with small buffers, and the
\* longest input path drawn for them.
SmallCap == 4

MaxLongLen == 6

\* The largest capacity of a SliceVec exercised on its own.
MaxSvCap == 5

\* The largest region of a ComponentStack exercised on its own.
MaxStackCap == 5

\* The longest input of the calls checked for termination.
MaxTermLen == 3

\* The kernel's own bound on the symlinks it follows while walking one path
\* (an operating system's choice; POSIX asks for 8 at least).
KernelMaxSymlinks == 8

\* F applied to the value v: a LET whose value is computed once.
With(v, F(_)) == F(v)

SeqsUpTo(S, n) == UNION {[1..k -> S] : k \in 0..n}

StartsWith(s, p) == Len(s) >= Len(p) /\ SubSeq(s, 1, Len(p)) = p

EndsWith(s, p) == Len(s) >= Len(p) /\ SubSeq(s, Len(s) - Len(p) + 1, Len(s)) = p

Drop(s, n) == SubSeq(s, n + 1, Len(s))

Take(s, n) == SubSeq(s, 1, IF n < Len(s) THEN n ELSE Len(s))

Contains(s, b) == \E i \in 1..Len(s) : s[i] = b

\* Index (0-based) of the first byte of s in the set B, or -1.
Position(s, B) ==
    IF \E i \in 1..Len(s) : s[i] \in B
    THEN (CHOOSE i \in 1..Len(s) : s[i] \in B /\ \A j \in 1..(i - 1) : s[j] \notin B) - 1
    ELSE -1

\* Index (0-based) of the last byte of s equal to b, or -1.
RPosition(s, b) ==
    IF \E i \in 1..Len(s) : s[i] = b
    THEN (CHOOSE i \in 1..Len(s) : s[i] = b /\ \A j \in (i + 1)..Len(s) : s[j] # b) - 1
    ELSE -1

RECURSIVE strip_leading_slashes(_)
strip_leading_slashes(s) ==
    IF s # <<>> /\ Head(s) = SL THEN strip_leading_slashes(Tail(s)) ELSE s

RECURSIVE strip_trailing_slashes(_)
strip_trailing_slashes(s) ==
    IF s # <<>> /\ s[Len(s)] = SL THEN strip_trailing_slashes(SubSeq(s, 1, Len(s) - 1)) ELSE s

ROOT1 == <<SL>>
ROOT2 == <<SL, SL>>
DOTDOT == <<DOT, DOT>>

\* --------------------------------------------------------------- SliceVec
\* A SliceVec is its contents (the bytes [0, len)) and the capacity of the
\* slice behind it.  Fallible operations return [ok, v]; the only error is
\* ENAMETOOLONG.

SvOk(v) == [ok |-> TRUE, v |-> v]
SvErr(v) == [ok |-> FALSE, v |-> v]

SvPush(v, cap, b) ==
    IF Len(v) < cap THEN SvOk(Append(v, b)) ELSE SvErr(v)

SvPop(v) == IF v = <<>> THEN v ELSE SubSeq(v, 1, Len(v) - 1)

SvClear(v) == <<>>

SvTruncateKeeps(v, max_len) == v

SvTruncate(v, max_len) == IF max_len < Len(v) THEN SubSeq(v, 1, max_len) ELSE v

SvExtendFromSlice(v, cap, src) ==
    IF Len(v) + Len(src) <= cap THEN SvOk(v \o src) ELSE SvErr(v)

SvReplace(v, cap, src) ==
    IF Len(src) <= cap THEN SvOk(src) ELSE SvErr(v)

\* Variant: the capacity is tested against the slice alone.
SvInsertFromSliceUnchecked(v, cap, i, src) ==
    IF src = <<>> THEN SvOk(v)
    ELSE IF Len(src) > cap THEN SvErr(v)
    ELSE SvOk(SubSeq(v, 1, i) \o src \o Drop(v, i))

SvInsertFromSlice(v, cap, i, src) ==
    IF src = <<>> THEN SvOk(v)
    ELSE IF Len(v) + Len(src) > cap THEN SvErr(v)
    ELSE SvOk(SubSeq(v, 1, i) \o src \o Drop(v, i))

\* remove_range(start..end), end exclusive.
SvRemoveRange(v, start, end) == SubSeq(v, 1, start) \o Drop(v, end)

\* Variant: the parent of the empty buffer is the empty buffer.
make_parent_path_empty_stays(v, cap) ==
    IF v = <<>> THEN SvOk(v)
    ELSE IF v = DOTDOT \/ EndsWith(v, <<SL, DOT, DOT>>)
    THEN SvExtendFromSlice(v, cap, <<SL, DOT, DOT>>)
    ELSE LET i == RPosition(v, SL) IN
         IF i = 0 THEN SvOk(SvTruncate(v, 1))
         ELSE IF i = 1 /\ v[1] = SL THEN SvOk(SvTruncate(v, 2))
         ELSE IF i >= 0 THEN SvOk(SvTruncate(v, i))
         ELSE SvOk(<<>>)

\* Variant: the buffer is cut at its last slash even when that is the root.
make_parent_path_cuts_root(v, cap) ==
    IF v = <<>> THEN SvExtendFromSlice(v, cap, DOTDOT)
    ELSE IF v = DOTDOT \/ EndsWith(v, <<SL, DOT, DOT>>)
    THEN SvExtendFromSlice(v, cap, <<SL, DOT, DOT>>)
    ELSE LET i == RPosition(v, SL) IN
         IF i >= 0 THEN SvOk(SvTruncate(v, i))
         ELSE SvOk(<<>>)

\* Variant: the root marker `//` is not told from `/`.
make_parent_path_single_root(v, cap) ==
    IF v = <<>> THEN SvExtendFromSlice(v, cap, DOTDOT)
    ELSE IF v = DOTDOT \/ EndsWith(v, <<SL, DOT, DOT>>)
    THEN SvExtendFromSlice(v, cap, <<SL, DOT, DOT>>)
    ELSE LET i == RPosition(v, SL) IN
         IF i = 0 THEN SvOk(SvTruncate(v, 1))
         ELSE IF i >= 0 THEN SvOk(SvTruncate(v, i))
         ELSE SvOk(<<>>)

make_parent_path(v, cap) ==
    IF v = <<>> THEN SvExtendFromSlice(v, cap, DOTDOT)
    ELSE IF v = DOTDOT \/ EndsWith(v, <<SL, DOT, DOT>>)
    THEN SvExtendFromSlice(v, cap, <<SL, DOT, DOT>>)
    ELSE LET i == RPosition(v, SL) IN
         IF i = 0 THEN SvOk(SvTruncate(v, 1))
         ELSE IF i = 1 /\ v[1] = SL THEN SvOk(SvTruncate(v, 2))
         ELSE IF i >= 0 THEN SvOk(SvTruncate(v, i))
         ELSE SvOk(<<>>)

\* ---------------------------------------------------------- ComponentIter
\* ComponentIter is the unread rest of the input.  next() returns the
\* component (None when exhausted) and the new rest.

None == <<NUL>>

\* Variant: only the first byte is tested for NUL.
ComponentIterNewFirstByte(path) ==
    IF path = <<>> THEN "ENOENT"
    ELSE IF path[1] = NUL THEN "EINVAL"
    ELSE "OK"

ComponentIterNew(path) ==
    IF path = <<>> THEN "ENOENT"
    ELSE IF Contains(path, NUL) THEN "EINVAL"
    ELSE "OK"

RECURSIVE IterNextName(_)
IterNextName(p) ==
    LET index == Position(p, {SL}) IN
    IF index >= 0
    THEN LET component == SubSeq(p, 1, index)
             rest == strip_leading_slashes(Drop(p, index))
         IN IF component # <<DOT>> THEN [c |-> component, rest |-> rest]
            ELSE IterNextName(rest)
    ELSE IF p = <<>> THEN [c |-> None, rest |-> <<>>]
    ELSE IF p # <<DOT>> THEN [c |-> p, rest |-> <<>>]
    ELSE IterNextName(<<>>)

\* Variant: any leading run of two or more slashes yields `//`.
ComponentIterNextAnyRun(p) ==
    IF p = <<>> THEN [c |-> None, rest |-> <<>>]
    ELSE IF Head(p) = SL
    THEN LET path == Tail(p)
             rest == strip_leading_slashes(path)
         IN [c |-> IF Len(path) - Len(rest) >= 1 THEN ROOT2 ELSE ROOT1, rest |-> rest]
    ELSE IterNextName(p)

ComponentIterNext(p) ==
    IF p = <<>> THEN [c |-> None, rest |-> <<>>]
    ELSE IF Head(p) = SL
    THEN LET path == Tail(p)
             rest == strip_leading_slashes(path)
         IN [c |-> IF Len(path) - Len(rest) = 1 THEN ROOT2 ELSE ROOT1, rest |-> rest]
    ELSE IterNextName(p)

\* The "is exhausted" query of the decomposer: next() would yield nothing.
ComponentIterIsEmpty(p) == ComponentIterNext(p).c = None

\* --------------------------------------------------------- ComponentStack
\* A ComponentStack is the bytes buf[i..] above its cursor, and the length
\* cap of its backing region; the cursor is i = cap - Len(stk).  Bytes below
\* the cursor are never read before they are written again.

StackCursor(stk, cap) == cap - Len(stk)

StackIsEmpty(stk) == stk = <<>>

\* skip_slashes_nul!: the cursor skips a run of slashes, then one NUL.
SkipSlashesNul(s) ==
    LET t == strip_leading_slashes(s)
    IN IF t # <<>> /\ Head(t) = NUL THEN Tail(t) ELSE t

RECURSIVE StackNext(_)
StackNext(stk) ==
    IF stk = <<>> THEN [c |-> None, stack |-> <<>>]
    ELSE IF Head(stk) = SL
    THEN LET path == Tail(stk)
         IN [c |-> IF /\ path # <<>>
                      /\ path[1] = SL
                      /\ ~(Len(path) >= 2 /\ path[2] = SL)
                   THEN ROOT2 ELSE ROOT1,
             stack |-> SkipSlashesNul(path)]
    ELSE LET offset == Position(stk, {SL, NUL})
             component == IF offset >= 0 THEN SubSeq(stk, 1, offset) ELSE stk
             rest == IF offset >= 0 THEN SkipSlashesNul(Drop(stk, offset)) ELSE <<>>
         IN IF component # <<>> /\ component # <<DOT>>
            THEN [c |-> component, stack |-> rest]
            ELSE StackNext(rest)

\* Variant: no NUL is put between the pushed path and the stack below it.
StackPushNoPadding(stk, cap, path) ==
    LET p == IF strip_trailing_slashes(path) # <<>> THEN strip_trailing_slashes(path)
             ELSE IF Len(path) = 2 THEN ROOT2 ELSE ROOT1
    IN IF path = <<>> THEN [eno |-> "ENOENT", stack |-> stk]
       ELSE IF Contains(path, NUL) THEN [eno |-> "EINVAL", stack |-> stk]
       ELSE IF StackCursor(stk, cap) < Len(p) THEN [eno |-> "ENAMETOOLONG", stack |-> stk]
       ELSE [eno |-> "OK", stack |-> p \o stk]

\* push: [eno, stack].  With the cursor at 0 under a non-empty stack the
\* padding step `self.i -= 1` underflows and the call panics (overflow check,
\* or the out-of-bounds index when the subtraction wraps).
StackPush(stk, cap, path) ==
    LET p == IF strip_trailing_slashes(path) # <<>> THEN strip_trailing_slashes(path)
             ELSE IF Len(path) = 2 THEN ROOT2 ELSE ROOT1
        pad == IF stk # <<>> THEN <<NUL>> ELSE <<>>
        i == StackCursor(stk, cap) - Len(pad)
    IN IF path = <<>> THEN [eno |-> "ENOENT", stack |-> stk]
       ELSE IF Contains(path, NUL) THEN [eno |-> "EINVAL", stack |-> stk]
       ELSE IF i < 0 THEN [eno |-> "PANIC", stack |-> stk]
       ELSE IF i < Len(p) THEN [eno |-> "ENAMETOOLONG", stack |-> stk]
       ELSE [eno |-> "OK", stack |-> p \o pad \o stk]

\* Variant: the target is pushed without the test that it fits.
PushReadlinkNoFitTest(stk, cap, rl) ==
    LET i == StackCursor(stk, cap)
        len == IF Len(rl.t) < i THEN Len(rl.t) ELSE i
    IN IF i = 0 THEN [eno |-> "ENAMETOOLONG", stack |-> stk, called |-> FALSE]
       ELSE IF rl.eno # "OK" THEN [eno |-> rl.eno, stack |-> stk, called |-> TRUE]
       ELSE [eno |-> "OK", stack |-> Take(rl.t, len) \o <<NUL>> \o stk, called |-> TRUE]

\* push_readlink, given what readlink(path) finds: rl = [eno, t] with eno
\* "OK" and the link's target t, or an errno.  readlink() copies at most
\* `cursor` bytes of the target into the region below the cursor.
PushReadlink(stk, cap, rl) ==
    LET i == StackCursor(stk, cap)
        len == IF Len(rl.t) < i THEN Len(rl.t) ELSE i
    IN IF i = 0 THEN [eno |-> "ENAMETOOLONG", stack |-> stk, called |-> FALSE]
       ELSE IF rl.eno # "OK" THEN [eno |-> rl.eno, stack |-> stk, called |-> TRUE]
       ELSE IF len >= i - 1 THEN [eno |-> "ENAMETOOLONG", stack |-> stk, called |-> TRUE]
       ELSE [eno |-> "OK", stack |-> Take(rl.t, len) \o <<NUL>> \o stk, called |-> TRUE]

\* --------------------------------------------------------- SymlinkCounter

SymlinkCounterNew(sysconf) ==
    [max |-> IF sysconf >= 0 /\ sysconf <= U16_MAX THEN sysconf ELSE SYMLOOP_FALLBACK,
     cur |-> 0]

\* Variant: the bound is tested with > instead of >=.
SymlinkCounterAdvanceOffByOne(links) ==
    IF links.cur > links.max THEN [ok |-> FALSE, links |-> links]
    ELSE [ok |-> TRUE, links |-> [links EXCEPT !.cur = links.cur + 1]]

\* Variant: a followed symlink is not counted.
SymlinkCounterAdvanceNoCount(links) == [ok |-> TRUE, links |-> links]

\* advance(): [ok, links].
SymlinkCounterAdvance(links) ==
    IF links.cur >= links.max THEN [ok |-> FALSE, links |-> links]
    ELSE [ok |-> TRUE, links |-> [links EXCEPT !.cur = links.cur + 1]]

\* ------------------------------------------------------ operating system
\* A file system maps a node (the sequence of names from the root) to what
\* is there.  The kernel walks a path from the root or from the working
\* directory, following the symlinks it meets on the way.

Dir == [k |-> "dir", t |-> <<>>]
File == [k |-> "file", t |-> <<>>]
XDir == [k |-> "xdir", t |-> <<>>]
Missing == [k |-> "none", t |-> <<>>]
Link(t) == [k |-> "link", t |-> t]

A == <<"a">>
B == <<"b">>

FsNames == {"dirs", "plain", "rel", "up", "abs", "loop", "dots", "perm"}

FsTable(fs) ==
    CASE fs = "plain" ->
           (<<A>> :> Dir) @@ (<<A, A>> :> Dir) @@ (<<A, B>> :> File) @@ (<<B>> :> File)
      [] fs = "rel" ->
           (<<A>> :> Dir) @@ (<<A, A>> :> File) @@ (<<A, B>> :> Link(<<"a">>))
           @@ (<<B>> :> Link(<<"a", SL, "b">>))
      [] fs = "up" ->
           (<<A>> :> Dir) @@ (<<A, A>> :> Dir) @@ (<<A, B>> :> Link(<<DOT, DOT, SL, "b">>))
           @@ (<<B>> :> File)
      [] fs = "abs" ->
           (<<A>> :> Dir) @@ (<<A, A>> :> Link(<<SL>>)) @@ (<<A, B>> :> Link(<<SL, SL, "a">>))
           @@ (<<B>> :> Link(<<SL, "a", SL, "b">>))
      [] fs = "loop" ->
           (<<A>> :> Link(<<"a">>)) @@ (<<B>> :> Link(<<DOT>>))
      [] fs = "dots" ->
           (<<A>> :> Dir) @@ (<<A, A>> :> Link(<<"b", SL, DOT>>)) @@ (<<B>> :> Link(<<"a", SL>>))
      [] fs = "perm" ->
           (<<A>> :> XDir) @@ (<<A, A>> :> Dir) @@ (<<B>> :> Dir) @@ (<<B, A>> :> File)
      [] OTHER -> (<<A>> :> Dir)

\* In "dirs" every name, at every depth, is a directory.
Lookup(fs, node) ==
    IF node = <<>> \/ fs = "dirs" THEN Dir
    ELSE With(FsTable(fs), LAMBDA t : IF node \in DOMAIN t THEN t[node] ELSE Missing)

\* The components the kernel walks: empty segments dropped, a trailing slash
\* after a name read as a trailing `.`.
RECURSIVE KSplit(_)
KSplit(p) ==
    LET q == strip_leading_slashes(p)
        idx == Position(q, {SL})
    IN IF q = <<>> THEN <<>>
       ELSE IF idx < 0 THEN <<q>>
       ELSE IF strip_leading_slashes(Drop(q, idx)) = <<>> THEN <<Take(q, idx), <<DOT>>>>
       ELSE <<Take(q, idx)>> \o KSplit(Drop(q, idx))

KErr(eno) == [eno |-> eno, node |-> <<>>]

RECURSIVE KWalk(_, _, _, _, _)
KWalk(fs, cur, comps, nofollow, fuel) ==
    IF comps = <<>> THEN [eno |-> "OK", node |-> cur]
    ELSE LET c == Head(comps)
             rest == Tail(comps)
             here == Lookup(fs, cur)
         IN IF here.k = "file" THEN KErr("ENOTDIR")
            ELSE IF here.k = "xdir" THEN KErr("EACCES")
            ELSE IF c = <<DOT>> THEN KWalk(fs, cur, rest, nofollow, fuel)
            ELSE IF c = DOTDOT
            THEN KWalk(fs, IF cur = <<>> THEN cur ELSE SubSeq(cur, 1, Len(cur) - 1),
                       rest, nofollow, fuel)
            ELSE LET n == Append(cur, c)
                     f == Lookup(fs, n)
                 IN IF f.k = "none" THEN KErr("ENOENT")
                    ELSE IF f.k = "link" /\ (rest # <<>> \/ ~nofollow)
                    THEN IF fuel = 0 THEN KErr("ELOOP")
                         ELSE KWalk(fs, IF Head(f.t) = SL THEN <<>> ELSE cur,
                                    KSplit(f.t) \o rest, nofollow, fuel - 1)
                    ELSE KWalk(fs, n, rest, nofollow, fuel)

\* An environment: the file system, the working directory (a canonical path
\* of a directory of it) and what sysconf(_SC_SYMLOOP_MAX) returns.
Env(fs, cwd, sysconf) == [fs |-> fs, cwd |-> cwd, sysconf |-> sysconf]

Envs ==
    << Env("dirs", <<SL>>, -1),
       Env("dirs", <<SL, "a">>, -1),
       Env("dirs", <<SL, "a", SL, "b">>, -1),
       Env("plain", <<SL>>, -1),
       Env("plain", <<SL, "a">>, -1),
       Env("rel", <<SL, "a">>, -1),
       Env("up", <<SL, "a">>, -1),
       Env("abs", <<SL, "a">>, 2),
       Env("loop", <<SL>>, -1),
       Env("loop", <<SL>>, 2),
       Env("dots", <<SL, "a">>, -1),
       Env("rel", <<SL>>, 0),
       Env("perm", <<SL, "b">>, -1) >>

KStart(e, cpath) == IF Head(cpath) = SL THEN <<>> ELSE KSplit(e.cwd)

\* readlink(2) of a NUL-terminated path: [eno, t].
KReadlink(e, cpath) ==
    With(KWalk(e.fs, KStart(e, cpath), KSplit(cpath), TRUE, KernelMaxSymlinks), LAMBDA w :
        IF w.eno # "OK" THEN [eno |-> w.eno, t |-> <<>>]
        ELSE With(Lookup(e.fs, w.node), LAMBDA f :
                 IF f.k = "link" THEN [eno |-> "OK", t |-> f.t]
                 ELSE [eno |-> "EINVAL", t |-> <<>>]))

\* stat(2): the kind of the node the path names, symlinks followed.
KStat(e, cpath) ==
    With(KWalk(e.fs, KStart(e, cpath), KSplit(cpath), FALSE, KernelMaxSymlinks), LAMBDA w :
        IF w.eno # "OK" THEN [eno |-> w.eno, k |-> "none"]
        ELSE [eno |-> "OK", k |-> Lookup(e.fs, w.node).k])

check_isdir(e, cpath) ==
    With(KStat(e, cpath), LAMBDA st :
        IF st.eno # "OK" THEN st.eno
        ELSE IF st.k \in {"dir", "xdir"} THEN "OK"
        ELSE "ENOTDIR")

readlink_empty(e, cpath) ==
    With(KReadlink(e, cpath), LAMBDA rl : IF rl.eno # "OK" THEN rl.eno ELSE "OK")

\* getcwd into a SliceVec of capacity cap: [eno, v].  libc's getcwd needs
\* room for the terminating NUL; on failure the contents are not defined and
\* the model keeps v.
getcwd(e, v, cap) ==
    IF Len(e.cwd) + 1 > cap THEN [eno |-> "ENAMETOOLONG", v |-> v]
    ELSE [eno |-> "OK", v |-> e.cwd]

\* ---------------------------------------------------- realpath_raw_inner
\* A call is its arguments, in = [path, flags, env, bufcap, tmpcap], and its
\* locals, s = [path_it, stack, buf, links, probe, pc, ret, ...].

RealpathFlags == {"ALLOW_MISSING", "ALLOW_LAST_MISSING", "IGNORE_SYMLINKS"}

Call(p, f, e, bc, tc) == [path |-> p, flags |-> f, env |-> e, bufcap |-> bc, tmpcap |-> tc]

NoRet == [tag |-> "none", len |-> 0, eno |-> "OK"]
RetOk(n) == [tag |-> "ok", len |-> n, eno |-> "OK"]
RetErr(eno) == [tag |-> "err", len |-> 0, eno |-> eno]

\* probe: the result `res` of the last component probe, "NONE" before any.
\* nreadlink, nstat, ngetcwd count the system calls made; abslink holds the
\* root markers of the absolute symlink targets followed so far.
Locals0 ==
    [path_it |-> <<>>, stack |-> <<>>, buf |-> <<>>,
     links |-> [max |-> 0, cur |-> 0], probe |-> "NONE",
     pc |-> "start", ret |-> NoRet,
     nreadlink |-> 0, nstat |-> 0, ngetcwd |-> 0, abslink |-> {}]

Fail(s, eno) == [s EXCEPT !.pc = "done", !.ret = RetErr(eno)]

\* Variant: the input is first copied onto the component stack.
BeginCopiesInput(in, s) ==
    IF ComponentIterNew(in.path) # "OK" THEN Fail(s, ComponentIterNew(in.path))
    ELSE IF Len(in.path) > in.tmpcap THEN Fail(s, "ENAMETOOLONG")
    ELSE [s EXCEPT !.path_it = in.path, !.stack = <<>>, !.buf = <<>>,
                   !.links = SymlinkCounterNew(Envs[in.env].sysconf),
                   !.pc = "drain"]

\* Lines 343-349: the stack, the decomposer (which validates the path), the
\* buffer and the symlink counter.
Begin(in, s) ==
    IF ComponentIterNew(in.path) # "OK" THEN Fail(s, ComponentIterNew(in.path))
    ELSE [s EXCEPT !.path_it = in.path, !.stack = <<>>, !.buf = <<>>,
                   !.links = SymlinkCounterNew(Envs[in.env].sysconf),
                   !.pc = "drain"]

\* stack.next().or_else(|| path_it.next())
NextComponent(s) ==
    LET r == StackNext(s.stack)
        q == ComponentIterNext(s.path_it)
    IN IF r.c # None THEN [c |-> r.c, stack |-> r.stack, path_it |-> s.path_it]
       ELSE [c |-> q.c, stack |-> r.stack, path_it |-> q.rest]

Popped(s, n) == [s EXCEPT !.stack = n.stack, !.path_it = n.path_it]

\* Variant: the root marker is appended to the buffer, not put in its place.
DrainRootAppends(in, s) ==
    With(NextComponent(s), LAMBDA n :
        LET r == SvExtendFromSlice(s.buf, in.bufcap, n.c)
        IN IF r.ok THEN [Popped(s, n) EXCEPT !.buf = r.v]
           ELSE Fail(Popped(s, n), "ENAMETOOLONG"))

DrainRoot(in, s) ==
    With(NextComponent(s), LAMBDA n :
        LET r == SvReplace(s.buf, in.bufcap, n.c)
        IN IF r.ok THEN [Popped(s, n) EXCEPT !.buf = r.v]
           ELSE Fail(Popped(s, n), "ENAMETOOLONG"))

DrainDotDot(in, s) ==
    With(NextComponent(s), LAMBDA n :
        LET r == make_parent_path(s.buf, in.bufcap)
        IN IF r.ok THEN [Popped(s, n) EXCEPT !.buf = r.v]
           ELSE Fail(Popped(s, n), "ENAMETOOLONG"))

\* Variant: the separator is pushed after a root marker too.
AppendNameAlwaysSlash(buf, cap, component) ==
    LET b1 == IF buf # <<>> THEN SvPush(buf, cap, SL) ELSE SvOk(buf)
        b2 == SvExtendFromSlice(b1.v, cap, component)
        b3 == SvPush(b2.v, cap, NUL)
    IN IF ~b1.ok THEN b1 ELSE IF ~b2.ok THEN b2 ELSE b3

\* Lines 361-365: the name and a NUL appended to the buffer.
AppendName(buf, cap, component) ==
    LET b1 == IF buf \notin {ROOT1, ROOT2, <<>>} THEN SvPush(buf, cap, SL) ELSE SvOk(buf)
        b2 == SvExtendFromSlice(b1.v, cap, component)
        b3 == SvPush(b2.v, cap, NUL)
    IN IF ~b1.ok THEN b1 ELSE IF ~b2.ok THEN b2 ELSE b3

\* The C string a NUL-terminated buffer holds.
CStr(v) == SubSeq(v, 1, Len(v) - 1)

\* Variant: IGNORE_SYMLINKS is not looked at.
ProbeAlwaysFollow(in, stack, cpath) ==
    With(KReadlink(Envs[in.env], cpath), LAMBDA rl :
    With(PushReadlink(stack, in.tmpcap, rl), LAMBDA r :
        [eno |-> r.eno, stack |-> r.stack, called |-> r.called,
         abs |-> IF r.eno = "OK" /\ Head(rl.t) = SL
                 THEN {ComponentIterNext(rl.t).c} ELSE {}]))

\* Lines 367-375: [eno, stack, called, abs].
Probe(in, stack, cpath) ==
    IF "IGNORE_SYMLINKS" \in in.flags
    THEN With(readlink_empty(Envs[in.env], cpath), LAMBDA e :
             [eno |-> IF e = "OK" THEN "EINVAL" ELSE e,
              stack |-> stack, called |-> TRUE, abs |-> {}])
    ELSE With(KReadlink(Envs[in.env], cpath), LAMBDA rl :
         With(PushReadlink(stack, in.tmpcap, rl), LAMBDA r :
             [eno |-> r.eno, stack |-> r.stack, called |-> r.called,
              abs |-> IF r.eno = "OK" /\ Head(rl.t) = SL
                      THEN {ComponentIterNext(rl.t).c} ELSE {}]))

\* Variant: ALLOW_MISSING waives a missing component only.
WaivedMissingOnly(flags, eno, stack, path_it) ==
    \/ eno = "ENOENT" /\ "ALLOW_MISSING" \in flags
    \/ /\ eno = "ENOENT"
       /\ "ALLOW_LAST_MISSING" \in flags
       /\ StackIsEmpty(stack)
       /\ ComponentIterIsEmpty(path_it)

\* Variant: ALLOW_LAST_MISSING waives not-a-directory too.
WaivedLastNotDir(flags, eno, stack, path_it) ==
    \/ eno \in {"ENOENT", "EACCES", "ENOTDIR"} /\ "ALLOW_MISSING" \in flags
    \/ /\ eno \in {"ENOENT", "ENOTDIR"}
       /\ "ALLOW_LAST_MISSING" \in flags
       /\ StackIsEmpty(stack)
       /\ ComponentIterIsEmpty(path_it)

\* Variant: ALLOW_MISSING does not waive a refused search permission.
WaivedNoAccess(flags, eno, stack, path_it) ==
    \/ eno \in {"ENOENT", "ENOTDIR"} /\ "ALLOW_MISSING" \in flags
    \/ /\ eno = "ENOENT"
       /\ "ALLOW_LAST_MISSING" \in flags
       /\ StackIsEmpty(stack)
       /\ ComponentIterIsEmpty(path_it)

\* Lines 391-403: the probe errors the flags waive.
Waived(flags, eno, stack, path_it) ==
    \/ eno \in {"ENOENT", "EACCES", "ENOTDIR"} /\ "ALLOW_MISSING" \in flags
    \/ /\ eno = "ENOENT"
       /\ "ALLOW_LAST_MISSING" \in flags
       /\ StackIsEmpty(stack)
       /\ ComponentIterIsEmpty(path_it)

DrainName(in, s) ==
    With(NextComponent(s), LAMBDA n :
    With(AppendName(s.buf, in.bufcap, n.c), LAMBDA b :
        IF ~b.ok THEN Fail([Popped(s, n) EXCEPT !.buf = b.v], "ENAMETOOLONG")
        ELSE With(Probe(in, n.stack, CStr(b.v)), LAMBDA res :
            LET oldlen == Len(s.buf)
                adv == SymlinkCounterAdvance(s.links)
                u == [Popped(s, n) EXCEPT
                          !.buf = b.v, !.stack = res.stack, !.probe = res.eno,
                          !.nreadlink = @ + (IF res.called THEN 1 ELSE 0)]
            IN IF res.eno = "OK"
               THEN IF adv.ok
                    THEN [u EXCEPT !.links = adv.links, !.buf = SvTruncate(b.v, oldlen),
                                   !.abslink = @ \cup res.abs]
                    ELSE Fail(u, "ELOOP")
               ELSE IF res.eno = "EINVAL" \/ Waived(in.flags, res.eno, res.stack, n.path_it)
               THEN [u EXCEPT !.buf = SvPop(b.v)]
               ELSE Fail(u, res.eno))))

count_leading_dotdot(v) ==
    LET P == {k \in 0..(Len(v) \div 3) :
                \A j \in 0..(k - 1) : SubSeq(v, 3 * j + 1, 3 * j + 3) = <<DOT, DOT, SL>>}
    IN CHOOSE k \in P : \A m \in P : m <= k

\* Variant: only a trailing `/` asks for the check, a trailing `/.` does not.
maybe_check_isdir_slash_only(in, v) ==
    LET b == SvPush(v, in.bufcap, NUL)
    IN IF EndsWith(in.path, <<SL>>) /\ "ALLOW_MISSING" \notin in.flags
       THEN IF ~b.ok THEN [eno |-> "ENAMETOOLONG", v |-> b.v, nstat |-> 0]
            ELSE With(check_isdir(Envs[in.env], CStr(b.v)), LAMBDA e :
                IF e = "OK" \/ (e = "ENOENT" /\ "ALLOW_LAST_MISSING" \in in.flags)
                THEN [eno |-> "OK", v |-> SvPop(b.v), nstat |-> 1]
                ELSE [eno |-> e, v |-> b.v, nstat |-> 1])
       ELSE [eno |-> "OK", v |-> v, nstat |-> 0]

\* maybe_check_isdir: [eno, v, nstat].
maybe_check_isdir(in, v) ==
    LET b == SvPush(v, in.bufcap, NUL)
    IN IF /\ EndsWith(in.path, <<SL>>) \/ EndsWith(in.path, <<SL, DOT>>)
          /\ "ALLOW_MISSING" \notin in.flags
       THEN IF ~b.ok THEN [eno |-> "ENAMETOOLONG", v |-> b.v, nstat |-> 0]
            ELSE With(check_isdir(Envs[in.env], CStr(b.v)), LAMBDA e :
                IF e = "OK" \/ (e = "ENOENT" /\ "ALLOW_LAST_MISSING" \in in.flags)
                THEN [eno |-> "OK", v |-> SvPop(b.v), nstat |-> 1]
                ELSE [eno |-> e, v |-> b.v, nstat |-> 1])
       ELSE [eno |-> "OK", v |-> v, nstat |-> 0]

RECURSIVE ParentTimes(_, _, _)
ParentTimes(v, cap, n) ==
    IF n = 0 THEN SvOk(v)
    ELSE LET r == make_parent_path(v, cap)
         IN IF r.ok THEN ParentTimes(r.v, cap, n - 1) ELSE r

Finish(s, v) == [s EXCEPT !.buf = v, !.pc = "done", !.ret = RetOk(Len(v))]

\* Lines 429-431.
PostEmpty(in, s) ==
    LET g == getcwd(Envs[in.env], s.buf, in.bufcap)
        t == [s EXCEPT !.ngetcwd = @ + 1, !.buf = g.v]
    IN IF g.eno # "OK" THEN Fail(t, g.eno) ELSE Finish(t, g.v)

\* Lines 432-435.
PostDotDot(in, s) ==
    LET g == getcwd(Envs[in.env], s.buf, in.bufcap)
        r == make_parent_path(g.v, in.bufcap)
        t == [s EXCEPT !.ngetcwd = @ + 1, !.buf = g.v]
    IN IF g.eno # "OK" THEN Fail(t, g.eno)
       ELSE IF ~r.ok THEN Fail(t, "ENAMETOOLONG")
       ELSE Finish(t, r.v)

\* Lines 436-453.
PostLeadingDotDot(in, s) ==
    With(count_leading_dotdot(s.buf), LAMBDA n0 :
    With(maybe_check_isdir(in, s.buf), LAMBDA chk :
    With(getcwd(Envs[in.env], <<>>, in.tmpcap), LAMBDA g :
        LET all == Drop(s.buf, n0 * 3) = DOTDOT
            n == IF all THEN n0 + 1 ELSE n0
            v == IF all THEN <<>> ELSE SvRemoveRange(chk.v, 0, n0 * 3 - 1)
            t == [s EXCEPT !.nstat = @ + (IF all THEN 0 ELSE chk.nstat)]
            u == [t EXCEPT !.ngetcwd = @ + 1, !.buf = v]
        IN IF ~all /\ chk.eno # "OK" THEN Fail([t EXCEPT !.buf = chk.v], chk.eno)
           ELSE IF g.eno # "OK" THEN Fail(u, g.eno)
           ELSE With(ParentTimes(g.v, in.tmpcap, n), LAMBDA par :
                With(SvInsertFromSlice(v, in.bufcap, 0, par.v), LAMBDA ins :
                    IF ~par.ok \/ ~ins.ok THEN Fail(u, "ENAMETOOLONG")
                    ELSE Finish(u, ins.v))))))

\* Lines 454-464.
PostRelative(in, s) ==
    With(maybe_check_isdir(in, s.buf), LAMBDA chk :
    With(getcwd(Envs[in.env], <<>>, in.tmpcap), LAMBDA g :
        LET tmp == SvPush(g.v, in.tmpcap, SL)
            ins == SvInsertFromSlice(chk.v, in.bufcap, 0, tmp.v)
            t == [s EXCEPT !.nstat = @ + chk.nstat, !.buf = chk.v]
            u == [t EXCEPT !.ngetcwd = @ + 1]
        IN IF chk.eno # "OK" THEN Fail(t, chk.eno)
           ELSE IF g.eno # "OK" THEN Fail(u, g.eno)
           ELSE IF ~tmp.ok \/ ~ins.ok THEN Fail(u, "ENAMETOOLONG")
           ELSE Finish(u, ins.v)))

\* Lines 465-468.
PostAbsolute(in, s) ==
    IF s.buf \in {ROOT1, ROOT2} THEN Finish(s, s.buf)
    ELSE With(maybe_check_isdir(in, s.buf), LAMBDA chk :
        LET t == [s EXCEPT !.nstat = @ + chk.nstat, !.buf = chk.v]
        IN IF chk.eno # "OK" THEN Fail(t, chk.eno) ELSE Finish(t, chk.v))

\* Lines 427-470: the drain loop has ended (the stack is cleared for reuse
\* as scratch space).
PostProcess(in, s0) ==
    With(Popped(s0, NextComponent(s0)), LAMBDA s :
        IF s.buf = <<>> THEN PostEmpty(in, s)
        ELSE IF s.buf = DOTDOT THEN PostDotDot(in, s)
        ELSE IF StartsWith(s.buf, <<DOT, DOT, SL>>) THEN PostLeadingDotDot(in, s)
        ELSE IF ~StartsWith(s.buf, <<SL>>) THEN PostRelative(in, s)
        ELSE PostAbsolute(in, s))

Kind(c) ==
    IF c = None THEN "none"
    ELSE IF c \in {ROOT1, ROOT2} THEN "root"
    ELSE IF c = DOTDOT THEN "dotdot"
    ELSE "name"

\* One step of the call.
Step(in, s) ==
    IF s.pc = "start" THEN Begin(in, s)
    ELSE IF s.pc = "drain"
    THEN CASE Kind(NextComponent(s).c) = "root" -> DrainRoot(in, s)
           [] Kind(NextComponent(s).c) = "dotdot" -> DrainDotDot(in, s)
           [] Kind(NextComponent(s).c) = "name" -> DrainName(in, s)
           [] OTHER -> PostProcess(in, s)
    ELSE s

\* The call run to its end.
RECURSIVE Run(_, _)
Run(in, s) == IF s.pc = "done" THEN s ELSE Run(in, Step(in, s))

realpath_raw_inner(path, bufcap, tmpcap, flags, env) ==
    Run(Call(path, flags, env, bufcap, tmpcap), Locals0)

\* ----------------------------------------------------------- normpath_raw

\* Variant: the separator is pushed after a root marker too.
NormAppendAlwaysSlash(v, cap, component) ==
    LET b1 == IF v # <<>> THEN SvPush(v, cap, SL) ELSE SvOk(v)
    IN IF ~b1.ok THEN b1 ELSE SvExtendFromSlice(b1.v, cap, component)

\* Lines 74-77: the name appended to the buffer.
NormAppend(v, cap, component) ==
    LET b1 == IF v \notin {ROOT1, ROOT2, <<>>} THEN SvPush(v, cap, SL) ELSE SvOk(v)
    IN IF ~b1.ok THEN b1 ELSE SvExtendFromSlice(b1.v, cap, component)

RECURSIVE NormLoop(_, _, _)
NormLoop(rest, v, cap) ==
    With(ComponentIterNext(rest), LAMBDA n :
        IF n.c = None THEN SvOk(v)
        ELSE With(CASE Kind(n.c) = "root" -> SvReplace(v, cap, n.c)
                    [] Kind(n.c) = "dotdot" -> make_parent_path(v, cap)
                    [] OTHER -> NormAppend(v, cap, n.c),
                  LAMBDA r : IF r.ok THEN NormLoop(n.rest, r.v, cap) ELSE r))

\* [ret, buf]
normpath_raw(path, cap) ==
    IF ComponentIterNew(path) # "OK"
    THEN [ret |-> RetErr(ComponentIterNew(path)), buf |-> <<>>]
    ELSE With(NormLoop(path, <<>>, cap), LAMBDA l :
        LET d == IF l.v = <<>> THEN SvPush(l.v, cap, DOT) ELSE l
        IN IF ~l.ok \/ ~d.ok THEN [ret |-> RetErr("ENAMETOOLONG"), buf |-> d.v]
           ELSE [ret |-> RetOk(Len(d.v)), buf |-> d.v])

\* ------------------------------------------------------------ the machine

VARIABLES fn, path, flags, env, bufcap, tmpcap,
          path_it, stack, buf, links, probe, pc, ret,
          nreadlink, nstat, ngetcwd, abslink, self_max_len

vars == <<fn, path, flags, env, bufcap, tmpcap,
          path_it, stack, buf, links, probe, pc, ret,
          nreadlink, nstat, ngetcwd, abslink, self_max_len>>

args == <<fn, path, flags, env, bufcap, tmpcap, self_max_len>>

In == Call(path, flags, env, bufcap, tmpcap)

Cur ==
    [path_it |-> path_it, stack |-> stack, buf |-> buf, links |-> links,
     probe |-> probe, pc |-> pc, ret |-> ret,
     nreadlink |-> nreadlink, nstat |-> nstat, ngetcwd |-> ngetcwd,
     abslink |-> abslink]

Become(s) ==
    /\ path_it' = s.path_it
    /\ stack' = s.stack
    /\ buf' = s.buf
    /\ links' = s.links
    /\ probe' = s.probe
    /\ pc' = s.pc
    /\ ret' = s.ret
    /\ nreadlink' = s.nreadlink
    /\ nstat' = s.nstat
    /\ ngetcwd' = s.ngetcwd
    /\ abslink' = s.abslink
    /\ UNCHANGED args

Paths ==
    SeqsUpTo(PathBytes, MaxLen)
    \cup {p \in SeqsUpTo(PathBytes \cup {NUL}, MaxNulLen) : Contains(p, NUL)}

\* normpath_raw reads no file system: its inputs are longer, over fewer bytes.
NormPaths == Paths \cup SeqsUpTo({SL, DOT, "a"}, MaxNormLen)

Init ==
    /\ fn \in {"realpath_raw", "normpath_raw"}
    /\ path \in (IF fn = "realpath_raw" THEN Paths ELSE NormPaths)
    /\ flags \in (IF fn = "realpath_raw" THEN SUBSET RealpathFlags ELSE {{}})
    /\ env \in (IF fn = "realpath_raw" THEN 1..Len(Envs) ELSE {1})
    /\ bufcap = PATH_MAX
    /\ tmpcap = PATH_MAX + TMP_SLACK
    /\ path_it = Locals0.path_it
    /\ stack = Locals0.stack
    /\ buf = Locals0.buf
    /\ links = Locals0.links
    /\ probe = Locals0.probe
    /\ pc = Locals0.pc
    /\ ret = Locals0.ret
    /\ nreadlink = Locals0.nreadlink
    /\ nstat = Locals0.nstat
    /\ ngetcwd = Locals0.ngetcwd
    /\ abslink = Locals0.abslink
    /\ self_max_len = PATH_MAX

NextKind == Kind(NextComponent(Cur).c)

RealpathBegin ==
    /\ fn = "realpath_raw"
    /\ pc = "start"
    /\ Become(Begin(In, Cur))

Root ==
    /\ pc = "drain"
    /\ NextKind = "root"
    /\ Become(DrainRoot(In, Cur))

DotDot ==
    /\ pc = "drain"
    /\ NextKind = "dotdot"
    /\ Become(DrainDotDot(In, Cur))

Name ==
    /\ pc = "drain"
    /\ NextKind = "name"
    /\ Become(DrainName(In, Cur))

Post ==
    /\ pc = "drain"
    /\ NextKind = "none"
    /\ Become(PostProcess(In, Cur))

Normpath ==
    /\ fn = "normpath_raw"
    /\ pc = "start"
    /\ buf' = normpath_raw(path, bufcap).buf
    /\ ret' = normpath_raw(path, bufcap).ret
    /\ pc' = "done"
    /\ UNCHANGED <<args, path_it, stack, links, probe, nreadlink, nstat, ngetcwd, abslink>>

Next == RealpathBegin \/ Root \/ DotDot \/ Name \/ Post \/ Normpath

Spec == Init /\ [][Next]_vars

\* Calls of realpath_raw in the file systems with symlinks, among them a
\* self-referencing link and a link to `.`.
TermEnvs == {6, 8, 9, 10, 11}

InitTerm ==
    /\ fn = "realpath_raw"
    /\ path \in SeqsUpTo(PathBytes, MaxTermLen)
    /\ flags \in {{}, {"ALLOW_MISSING"}}
    /\ env \in TermEnvs
    /\ bufcap = PATH_MAX
    /\ tmpcap = PATH_MAX + TMP_SLACK
    /\ path_it = Locals0.path_it
    /\ stack = Locals0.stack
    /\ buf = Locals0.buf
    /\ links = Locals0.links
    /\ probe = Locals0.probe
    /\ pc = Locals0.pc
    /\ ret = Locals0.ret
    /\ nreadlink = Locals0.nreadlink
    /\ nstat = Locals0.nstat
    /\ ngetcwd = Locals0.ngetcwd
    /\ abslink = Locals0.abslink
    /\ self_max_len = PATH_MAX

NextTerm == RealpathBegin \/ Root \/ DotDot \/ Name \/ Post

\* The call is sequential code: while a step is possible one is taken.  A
\* step is possible exactly while pc # "done", so this is weak fairness of
\* NextTerm with its enabling condition written out.
FairTerm == []<>(pc = "done") \/ []<><<NextTerm>>_vars

SpecTerm == InitTerm /\ [][NextTerm]_vars /\ FairTerm

\* Calls of realpath_raw_inner with small buffers and inputs longer than
\* both of them.
LongPaths == {p \in SeqsUpTo(PathBytes, MaxLongLen) : Len(p) > SmallCap}

SmallEnvs == {1, 2, 6}

InitSmall ==
    /\ fn = "realpath_raw"
    /\ path \in LongPaths
    /\ flags \in {{}, {"ALLOW_MISSING"}}
    /\ env \in SmallEnvs
    /\ bufcap = SmallCap
    /\ tmpcap = SmallCap
    /\ path_it = Locals0.path_it
    /\ stack = Locals0.stack
    /\ buf = Locals0.buf
    /\ links = Locals0.links
    /\ probe = Locals0.probe
    /\ pc = Locals0.pc
    /\ ret = Locals0.ret
    /\ nreadlink = Locals0.nreadlink
    /\ nstat = Locals0.nstat
    /\ ngetcwd = Locals0.ngetcwd
    /\ abslink = Locals0.abslink
    /\ self_max_len = PATH_MAX

NextSmall == RealpathBegin \/ Root \/ DotDot \/ Name \/ Post

SpecSmall == InitSmall /\ [][NextSmall]_vars

\* A SliceVec on its own: created empty over a slice of bufcap bytes, then
\* any sequence of its operations.  buf holds its contents and ret the
\* result of the last call.
SvBytes == {SL, DOT, "a"}

\* The slices passed to its operations.
SvSrcs == {<<>>, <<"a">>, <<SL>>, DOTDOT, <<SL, DOT, DOT>>, <<SL, SL, "a", SL, "a", SL>>}

SvRest == <<fn, path, flags, env, bufcap, tmpcap, path_it, stack, links, probe, pc,
            nreadlink, nstat, ngetcwd, abslink, self_max_len>>

SvResult(r) ==
    /\ fn = "slicevec"
    /\ buf' = r.v
    /\ ret' = IF r.ok THEN RetOk(Len(r.v)) ELSE RetErr("ENAMETOOLONG")
    /\ UNCHANGED SvRest

SvCallPush(b) == SvResult(SvPush(buf, bufcap, b))

SvCallPop == SvResult(SvOk(SvPop(buf)))

SvCallTruncate(n) == SvResult(SvOk(SvTruncate(buf, n)))

SvCallClear == SvResult(SvOk(SvClear(buf)))

SvCallExtendFromSlice(src) == SvResult(SvExtendFromSlice(buf, bufcap, src))

SvCallReplace(src) == SvResult(SvReplace(buf, bufcap, src))

SvCallInsertFromSlice(i, src) == SvResult(SvInsertFromSlice(buf, bufcap, i, src))

SvCallRemoveRange(start, end) == SvResult(SvOk(SvRemoveRange(buf, start, end)))

SvCallMakeParentPath == SvResult(make_parent_path(buf, bufcap))

InitSv ==
    /\ fn = "slicevec"
    /\ path = <<>>
    /\ flags = {}
    /\ env = 1
    /\ bufcap \in 0..MaxSvCap
    /\ tmpcap = 0
    /\ path_it = Locals0.path_it
    /\ stack = Locals0.stack
    /\ buf = <<>>
    /\ links = Locals0.links
    /\ probe = Locals0.probe
    /\ pc = Locals0.pc
    /\ ret = Locals0.ret
    /\ nreadlink = Locals0.nreadlink
    /\ nstat = Locals0.nstat
    /\ ngetcwd = Locals0.ngetcwd
    /\ abslink = Locals0.abslink
    /\ self_max_len = PATH_MAX

NextSv ==
    \/ \E b \in SvBytes : SvCallPush(b)
    \/ SvCallPop
    \/ \E n \in 0..MaxSvCap : SvCallTruncate(n)
    \/ SvCallClear
    \/ \E src \in SvSrcs : SvCallExtendFromSlice(src)
    \/ \E src \in SvSrcs : SvCallReplace(src)
    \/ \E i \in 0..Len(buf), src \in SvSrcs : SvCallInsertFromSlice(i, src)
    \/ \E start \in 0..Len(buf) : \E end \in start..Len(buf) : SvCallRemoveRange(start, end)
    \/ SvCallMakeParentPath

SpecSv == InitSv /\ [][NextSv]_vars

\* A ComponentStack on its own: created empty over a region of tmpcap bytes,
\* then any sequence of push and next.  stack holds the bytes above the
\* cursor, ret the result of the last push, and buf what the last next()
\* returned.
StackArgs ==
    (SeqsUpTo({SL, DOT, "a"}, 2) \cup {<<NUL>>})
    \cup {<<SL, SL, SL>>, <<SL, SL, "a">>, <<"a", SL, "a">>, <<"a", SL, SL>>, <<SL, "a", SL>>}

StackRest == <<fn, path, flags, env, bufcap, tmpcap, path_it, links, probe,
               nreadlink, nstat, ngetcwd, abslink, self_max_len>>

StackCallPush(p) ==
    /\ fn = "stack"
    /\ pc = "start"
    /\ stack' = StackPush(stack, tmpcap, p).stack
    /\ ret' = IF StackPush(stack, tmpcap, p).eno = "OK" THEN RetOk(0)
              ELSE RetErr(StackPush(stack, tmpcap, p).eno)
    /\ pc' = IF StackPush(stack, tmpcap, p).eno = "PANIC" THEN "done" ELSE pc
    /\ UNCHANGED buf
    /\ UNCHANGED StackRest

StackCallNext ==
    /\ fn = "stack"
    /\ pc = "start"
    /\ stack' = StackNext(stack).stack
    /\ buf' = StackNext(stack).c
    /\ UNCHANGED <<ret, pc>>
    /\ UNCHANGED StackRest

InitStack ==
    /\ fn = "stack"
    /\ path = <<>>
    /\ flags = {}
    /\ env = 1
    /\ bufcap = 0
    /\ tmpcap \in 1..MaxStackCap
    /\ path_it = Locals0.path_it
    /\ stack = <<>>
    /\ buf = <<>>
    /\ links = Locals0.links
    /\ probe = Locals0.probe
    /\ pc = Locals0.pc
    /\ ret = Locals0.ret
    /\ nreadlink = Locals0.nreadlink
    /\ nstat = Locals0.nstat
    /\ ngetcwd = Locals0.ngetcwd
    /\ abslink = Locals0.abslink
    /\ self_max_len = PATH_MAX

NextStack ==
    \/ \E p \in StackArgs : StackCallPush(p)
    \/ StackCallNext

SpecStack == InitStack /\ [][NextStack]_vars

\* A ComponentStack driven by push, next and push_readlink, the latter for
\* every outcome of readlink(2): a target, not a symlink, or missing.
\* nreadlink is the number of readlink calls the last push_readlink made.
ReadlinkOutcomes ==
    {[eno |-> "OK", t |-> s] :
        s \in {<<"a">>, <<SL, "a">>, <<"a", SL, DOT>>, <<SL, SL, "a", SL, "a">>}}
    \cup {[eno |-> "EINVAL", t |-> <<>>], [eno |-> "ENOENT", t |-> <<>>]}

StackCallPushReadlink(rl) ==
    /\ fn = "stack"
    /\ pc = "start"
    /\ stack' = PushReadlink(stack, tmpcap, rl).stack
    /\ ret' = IF PushReadlink(stack, tmpcap, rl).eno = "OK" THEN RetOk(0)
              ELSE RetErr(PushReadlink(stack, tmpcap, rl).eno)
    /\ nreadlink' = IF PushReadlink(stack, tmpcap, rl).called THEN 1 ELSE 0
    /\ UNCHANGED <<fn, path, flags, env, bufcap, tmpcap, path_it, buf, links, probe, pc,
                   nstat, ngetcwd, abslink, self_max_len>>

NextLink ==
    \/ \E p \in StackArgs : StackCallPush(p)
    \/ StackCallNext
    \/ \E rl \in ReadlinkOutcomes : StackCallPushReadlink(rl)

SpecLink == InitStack /\ [][NextLink]_vars

\* ------------------------------------------- RealpathBuilder::realpath

\* The largest max_len tried is MaxBuilderFactor * PATH_MAX + 1.
MaxBuilderFactor == 4

\* RealpathBuilder::max_len(): any usize; the lengths around each multiple
\* of PATH_MAX, where the doubling meets the cap, and the smallest ones.
BuilderMaxLens ==
    (0 .. 2) \cup {k * PATH_MAX + d : k \in 1 .. MaxBuilderFactor, d \in {-1, 0, 1}}

\* What realpath_raw_inner() can hand back for an output buffer of n bytes:
\* a length within the buffer, or an error.  The retry loop looks at
\* nothing else of the engine, so every sequence of these is allowed.
EngineOutcomes(n) ==
    {RetOk(len) : len \in {l \in {1, n} : l <= n}}
      \cup {RetErr(e) : e \in {"ENAMETOOLONG", "ENOENT", "ELOOP", "EACCES"}}

\* let len = PATH_MAX.min(self.max_len)
BuilderFirstLen(max) == IF PATH_MAX < max THEN PATH_MAX ELSE max

\* buf.len().saturating_mul(2).min(self.max_len), without the cap.
BuilderGrowUncapped(len, max) == 2 * len

\* buf.len().saturating_mul(2).min(self.max_len); a Vec is never longer
\* than isize::MAX bytes, so the product does not saturate.
BuilderGrow(len, max) == IF 2 * len < max THEN 2 * len ELSE max

BuilderRest ==
    UNCHANGED <<fn, path, flags, env, path_it, stack, buf, links,
                nreadlink, nstat, ngetcwd, abslink, self_max_len>>

\* let mut buf = vec![0; len]; let mut tmp = vec![0; len + 100];
BuilderStart ==
    /\ fn = "builder"
    /\ pc = "start"
    /\ bufcap' = BuilderFirstLen(self_max_len)
    /\ tmpcap' = bufcap' + TMP_SLACK
    /\ pc' = "call"
    /\ UNCHANGED <<probe, ret>>
    /\ BuilderRest

\* One iteration of the loop: the engine's outcome `out` is matched.
\* probe records the outcome, bufcap and tmpcap are buf.len() and tmp.len().
BuilderCall(out) ==
    /\ fn = "builder"
    /\ pc = "call"
    /\ probe' = out.eno
    /\ IF out.tag = "ok"
       THEN /\ bufcap' = out.len
            /\ ret' = out
            /\ pc' = "done"
            /\ UNCHANGED tmpcap
       ELSE IF out.eno = "ENAMETOOLONG" /\ bufcap < self_max_len
       THEN /\ bufcap' = BuilderGrow(bufcap, self_max_len)
            /\ tmpcap' = bufcap' + TMP_SLACK
            /\ UNCHANGED <<pc, ret>>
       ELSE /\ ret' = out
            /\ pc' = "done"
            /\ UNCHANGED <<bufcap, tmpcap>>
    /\ BuilderRest

InitBuilder ==
    /\ fn = "builder"
    /\ path = <<>>
    /\ flags = {}
    /\ env = 1
    /\ bufcap = 0
    /\ tmpcap = 0
    /\ self_max_len \in BuilderMaxLens
    /\ path_it = Locals0.path_it
    /\ stack = Locals0.stack
    /\ buf = Locals0.buf
    /\ links = Locals0.links
    /\ probe = Locals0.probe
    /\ pc = Locals0.pc
    /\ ret = Locals0.ret
    /\ nreadlink = Locals0.nreadlink
    /\ nstat = Locals0.nstat
    /\ ngetcwd = Locals0.ngetcwd
    /\ abslink = Locals0.abslink

NextBuilder ==
    \/ BuilderStart
    \/ \E out \in EngineOutcomes(bufcap) : BuilderCall(out)

\* The loop is straight-line code: an iteration that can run does run.
FairBuilder == WF_vars(NextBuilder)

SpecBuilder == InitBuilder /\ [][NextBuilder]_vars /\ FairBuilder

\* ------------------------------------------------------------ normpath

NormpathRest ==
    UNCHANGED <<fn, path, flags, env, tmpcap, path_it, stack, links, probe,
                nreadlink, nstat, ngetcwd, abslink, self_max_len>>

\* let mut buf = vec![0; path.len()];
NormpathAlloc ==
    /\ fn = "normpath"
    /\ pc = "start"
    /\ bufcap' = Len(path)
    /\ pc' = "call"
    /\ UNCHANGED <<buf, ret>>
    /\ NormpathRest

\* normpath_raw(path, &mut buf) and buf.truncate(len); an error is passed on.
NormpathCall ==
    /\ fn = "normpath"
    /\ pc = "call"
    /\ buf' = normpath_raw(path, bufcap).buf
    /\ ret' = normpath_raw(path, bufcap).ret
    /\ pc' = "done"
    /\ UNCHANGED bufcap
    /\ NormpathRest

InitNormpath ==
    /\ fn = "normpath"
    /\ path \in NormPaths
    /\ flags = {}
    /\ env = 1
    /\ bufcap = 0
    /\ tmpcap = 0
    /\ path_it = Locals0.path_it
    /\ stack = Locals0.stack
    /\ buf = Locals0.buf
    /\ links = Locals0.links
    /\ probe = Locals0.probe
    /\ pc = Locals0.pc
    /\ ret = Locals0.ret
    /\ nreadlink = Locals0.nreadlink
    /\ nstat = Locals0.nstat
    /\ ngetcwd = Locals0.ngetcwd
    /\ abslink = Locals0.abslink
    /\ self_max_len = PATH_MAX

NextNormpath == NormpathAlloc \/ NormpathCall

SpecNormpath == InitNormpath /\ [][NextNormpath]_vars

\* ------------------------------------------------------------- properties

Done == pc = "done"

RealpathDone == fn = "realpath_raw" /\ pc = "done"

Succeeded == RealpathDone /\ ret.tag = "ok"

ValidPath(p) == p # <<>> /\ ~Contains(p, NUL)

\* The path begins with exactly two slashes.
TwoSlashRoot(p) == StartsWith(p, ROOT2) /\ ~StartsWith(p, <<SL, SL, SL>>)

EndsSlashOrDot(p) == EndsWith(p, <<SL>>) \/ EndsWith(p, <<SL, DOT>>)

\* The reference canonical path: the names left after `.` is dropped and
\* each `..` steps to the parent (clamped at the root).
RECURSIVE RefFold(_, _)
RefFold(comps, acc) ==
    IF comps = <<>> THEN acc
    ELSE IF Head(comps) = <<DOT>> THEN RefFold(Tail(comps), acc)
    ELSE IF Head(comps) = DOTDOT
    THEN RefFold(Tail(comps), IF acc = <<>> THEN acc ELSE SubSeq(acc, 1, Len(acc) - 1))
    ELSE RefFold(Tail(comps), Append(acc, Head(comps)))

RECURSIVE RefJoin(_)
RefJoin(names) ==
    IF names = <<>> THEN <<>> ELSE <<SL>> \o Head(names) \o RefJoin(Tail(names))

RefCanonical(cwd, p) ==
    LET full == IF Head(p) = SL THEN p ELSE cwd \o <<SL>> \o p
        names == RefFold(KSplit(full), <<>>)
    IN IF names = <<>> THEN ROOT1 ELSE RefJoin(names)

\* C1: without symlinks, every name an existing directory, empty flags and
\* large buffers, realpath_raw of a valid path that does not begin with
\* exactly two slashes returns the reference canonical path.
C1_MatchesReference ==
    (/\ RealpathDone
     /\ ValidPath(path)
     /\ ~TwoSlashRoot(path)
     /\ flags = {}
     /\ Envs[env].fs = "dirs")
    => /\ ret.tag = "ok"
       /\ buf = RefCanonical(Envs[env].cwd, path)

\* The components of an absolute path in canonical form, after its root.
CanonicalTail(t) ==
    /\ t # <<>> => t[Len(t)] # SL
    /\ \A i \in 1..(Len(t) - 1) : ~(t[i] = SL /\ t[i + 1] = SL)
    /\ \A c \in {KSplit(t)[i] : i \in 1..Len(KSplit(t))} : c # <<DOT>> /\ c # DOTDOT

CanonicalForm(v, doubleAllowed) ==
    /\ StartsWith(v, ROOT1)
    /\ IF StartsWith(v, ROOT2)
       THEN doubleAllowed /\ ~StartsWith(v, <<SL, SL, SL>>) /\ CanonicalTail(Drop(v, 2))
       ELSE CanonicalTail(Drop(v, 1))

\* C2: a successful realpath_raw returns a path in canonical syntactic form:
\* absolute, no `.` or `..` component, no trailing slash unless it is a bare
\* root, no doubled slash except a leading `//` that comes from an input or
\* a followed absolute symlink target rooted with exactly two slashes.
C2_CanonicalForm ==
    Succeeded => CanonicalForm(buf, TwoSlashRoot(path) \/ ROOT2 \in abslink)

AllSlashes(p) == p # <<>> /\ \A i \in 1..Len(p) : p[i] = SL

\* C3: an input of slashes only gives `//` when there are exactly two of
\* them and `/` otherwise; an absolute input resolved without following an
\* absolute symlink gives a result that begins with `//` exactly when the
\* input begins with exactly two slashes.
C3_RootMarker ==
    /\ (RealpathDone /\ AllSlashes(path))
       => /\ ret.tag = "ok"
          /\ buf = IF Len(path) = 2 THEN ROOT2 ELSE ROOT1
    /\ (Succeeded /\ StartsWith(path, ROOT1) /\ abslink = {})
       => (StartsWith(buf, ROOT2) <=> TwoSlashRoot(path))

\* C3 witness: an input rooted with exactly two slashes, resolved through a
\* relative symlink, gives a longer `//` path.
C3_Witness ==
    /\ Succeeded
    /\ TwoSlashRoot(path)
    /\ links.cur > 0
    /\ abslink = {}
    /\ StartsWith(buf, ROOT2)
    /\ Len(buf) > 2

\* C4: a call that succeeds with a large output buffer and a result of
\* length L also succeeds, with the same result, in a buffer of exactly L
\* bytes, and fails with ENAMETOOLONG in one of L - 1 bytes.
C4_ExactBuffer ==
    Succeeded =>
        LET L == ret.len
            exact == realpath_raw_inner(path, L, tmpcap, flags, env)
            short == realpath_raw_inner(path, L - 1, tmpcap, flags, env)
        IN /\ exact.ret = RetOk(L)
           /\ exact.buf = buf
           /\ short.ret = RetErr("ENAMETOOLONG")

NoSyscalls == nreadlink = 0 /\ nstat = 0 /\ ngetcwd = 0

\* C5: realpath_raw and normpath_raw fail with ENOENT for the empty input
\* and with EINVAL for an input with a NUL byte anywhere in it, and do so
\* before any readlink, stat or getcwd call, whatever the flags.
C5_InputValidation ==
    Done =>
        /\ path = <<>> => (ret = RetErr("ENOENT") /\ NoSyscalls)
        /\ Contains(path, NUL) => (ret = RetErr("EINVAL") /\ NoSyscalls)

\* C5 witness: realpath_raw, with flags set, has rejected a path whose NUL
\* byte is not the first byte.
C5_Witness ==
    /\ RealpathDone
    /\ flags # {}
    /\ Contains(path, NUL)
    /\ path[1] # NUL
    /\ ret = RetErr("EINVAL")

\* A Name step that reached its probe.
Probed == Name /\ nreadlink' = nreadlink + 1

\* The buffer with the next component kept as a plain name.
NameKept == NormAppend(buf, bufcap, NextComponent(Cur).c).v

\* What the path held by the buffer at the end of the drain loop names.
ResolvedKind == IF buf = <<>> THEN "dir" ELSE KStat(Envs[env], buf).k

\* C6: with only ALLOW_LAST_MISSING, an ENOENT probe result is waived
\* exactly when no component remains, in the stack or in the rest of the
\* input; then the name is kept and the call succeeds, otherwise the call
\* fails with ENOENT.
C6_LastMissingIff ==
    [][(flags = {"ALLOW_LAST_MISSING"})
       => /\ (Probed /\ probe' = "ENOENT")
             => IF NextComponent(Cur').c = None
                THEN pc' = "drain" /\ buf' = NameKept
                ELSE ret' = RetErr("ENOENT")
          /\ (Post /\ probe = "ENOENT") => ret'.tag = "ok"]_vars

PlainRelative(p) ==
    /\ ValidPath(p)
    /\ ~Contains(p, DOT)
    /\ p[1] # SL
    /\ p[Len(p)] # SL
    /\ \A i \in 1..(Len(p) - 1) : ~(p[i] = SL /\ p[i + 1] = SL)

FirstName(p) == IF Position(p, {SL}) >= 0 THEN Take(p, Position(p, {SL})) ELSE p

\* C7: with ALLOW_MISSING (getcwd succeeding, large buffers) a probe that
\* fails with ENOENT, EACCES or ENOTDIR keeps the component as a plain name
\* and goes on, no directory check is made, the call never fails with one
\* of these errors, and a relative path of plain names whose first is
\* missing yields the working directory followed by `/` and the path.
C7_AllowMissing ==
    /\ [][("ALLOW_MISSING" \in flags /\ Probed
             /\ probe' \in {"ENOENT", "EACCES", "ENOTDIR"})
          => pc' = "drain" /\ buf' = NameKept]_vars
    /\ []((RealpathDone /\ "ALLOW_MISSING" \in flags /\ ValidPath(path))
          => /\ nstat = 0
             /\ ret.eno \notin {"ENOENT", "EACCES", "ENOTDIR"})
    /\ []((RealpathDone /\ "ALLOW_MISSING" \in flags /\ PlainRelative(path)
             /\ KReadlink(Envs[env], FirstName(path)).eno = "ENOENT")
          => /\ ret.tag = "ok"
             /\ buf = Envs[env].cwd \o <<SL>> \o path)

\* C7 witness: a relative two-name path whose first name is missing was
\* resolved under ALLOW_MISSING.
C7_Witness ==
    /\ Succeeded
    /\ "ALLOW_MISSING" \in flags
    /\ PlainRelative(path)
    /\ Contains(path, SL)
    /\ KReadlink(Envs[env], FirstName(path)).eno = "ENOENT"
    /\ probe = "ENOENT"

\* C8: an input ending in `/` or `/.` whose resolved path names an existing
\* non-directory fails with ENOTDIR under empty flags and under
\* IGNORE_SYMLINKS and succeeds under ALLOW_MISSING; an input without that
\* ending, or a resolved path that is a bare root, gets no directory check.
C8_TrailingSlash ==
    [][Post
       => /\ (EndsSlashOrDot(path) /\ ResolvedKind = "file")
             => /\ flags \in {{}, {"IGNORE_SYMLINKS"}} => ret' = RetErr("ENOTDIR")
                /\ "ALLOW_MISSING" \in flags => ret'.tag = "ok"
          /\ (~EndsSlashOrDot(path) \/ buf \in {ROOT1, ROOT2}) => nstat' = 0]_vars

\* C8 witness: under IGNORE_SYMLINKS an input ending in `/.` was checked and
\* failed with ENOTDIR.
C8_Witness ==
    /\ RealpathDone
    /\ flags = {"IGNORE_SYMLINKS"}
    /\ EndsWith(path, <<SL, DOT>>)
    /\ nstat = 1
    /\ ret = RetErr("ENOTDIR")

\* C9: ALLOW_LAST_MISSING without ALLOW_MISSING never waives ENOTDIR: a
\* name whose probe fails with ENOTDIR fails the call with ENOTDIR, an input
\* ending in `/` or `/.` that resolves to an existing non-directory fails
\* with ENOTDIR, and the directory check passes only on success or ENOENT.
C9_LastMissingNotDir ==
    [][("ALLOW_LAST_MISSING" \in flags /\ "ALLOW_MISSING" \notin flags)
       => /\ (Probed /\ probe' = "ENOTDIR") => ret' = RetErr("ENOTDIR")
          /\ (Post /\ EndsSlashOrDot(path) /\ ResolvedKind = "file")
             => ret' = RetErr("ENOTDIR")
          /\ (Post /\ nstat' = nstat + 1
                /\ check_isdir(Envs[env], buf) \notin {"OK", "ENOENT"})
             => ret' = RetErr(check_isdir(Envs[env], buf))]_vars

\* C9 witness: under ALLOW_LAST_MISSING the last name of the input, beneath
\* a regular file, was probed and the call failed with ENOTDIR.
C9_Witness ==
    /\ RealpathDone
    /\ flags = {"ALLOW_LAST_MISSING"}
    /\ probe = "ENOTDIR"
    /\ path_it = <<>>
    /\ stack = <<>>
    /\ ret = RetErr("ENOTDIR")

C11_Idempotent ==
    Succeeded =>
        LET again == realpath_raw_inner(buf, bufcap, tmpcap, flags, env)
        IN /\ again.ret = RetOk(Len(buf))
           /\ again.buf = buf

\* C11 witness: a result reached through a symlink and a `..`, different
\* from the input.
C11_Witness ==
    /\ Succeeded
    /\ links.cur > 0
    /\ \E i \in 1..(Len(path) - 1) : path[i] = DOT /\ path[i + 1] = DOT
    /\ buf # path

\* The segments of a path between its slashes, the empty ones dropped.
RECURSIVE Segments(_)
Segments(p) ==
    LET q == strip_leading_slashes(p)
        idx == Position(q, {SL})
    IN IF q = <<>> THEN <<>>
       ELSE IF idx < 0 THEN <<q>>
       ELSE <<Take(q, idx)>> \o Segments(Drop(q, idx))

\* The names left of the segments: `.` dropped, `..` cancelling the name
\* before it, dropped under a root, kept in front of a relative path.
RECURSIVE NormFold(_, _, _)
NormFold(segs, acc, rooted) ==
    IF segs = <<>> THEN acc
    ELSE IF Head(segs) = <<DOT>> THEN NormFold(Tail(segs), acc, rooted)
    ELSE IF Head(segs) = DOTDOT
    THEN IF acc # <<>> /\ acc[Len(acc)] # DOTDOT
         THEN NormFold(Tail(segs), SubSeq(acc, 1, Len(acc) - 1), rooted)
         ELSE IF rooted THEN NormFold(Tail(segs), acc, rooted)
         ELSE NormFold(Tail(segs), Append(acc, DOTDOT), rooted)
    ELSE NormFold(Tail(segs), Append(acc, Head(segs)), rooted)

\* The lexical normalization of a path.
RefNormalize(p) ==
    LET root == IF TwoSlashRoot(p) THEN ROOT2 ELSE IF Head(p) = SL THEN ROOT1 ELSE <<>>
        names == NormFold(Segments(p), <<>>, root # <<>>)
        tail == IF names = <<>> THEN <<>> ELSE Drop(RefJoin(names), 1)
    IN IF root = <<>> /\ names = <<>> THEN <<DOT>> ELSE root \o tail

\* C12: for a valid input and a large buffer normpath_raw returns the
\* lexical normalization of the input, with no readlink, stat or getcwd call.
C12_Normalizes ==
    (fn = "normpath_raw" /\ Done /\ ValidPath(path))
    => /\ ret = RetOk(Len(RefNormalize(path)))
       /\ buf = RefNormalize(path)
       /\ NoSyscalls

\* C12 witness: a `//`-rooted input with a cancelled name was normalized to
\* the root marker `//`.
C12_Witness ==
    /\ fn = "normpath_raw"
    /\ Done
    /\ path = <<SL, SL, "a", SL, DOT, DOT>>
    /\ buf = ROOT2

\* What readlink finds at the next component, kept as a plain name.
NameProbe == KReadlink(Envs[env], NameKept).eno

\* C13: with IGNORE_SYMLINKS nothing is ever pushed onto the stack and the
\* counter never advances; every name is probed; a symlink is kept under its
\* own name; a missing name fails the call with ENOENT when no ALLOW_* flag
\* is set; ELOOP comes from the kernel only.
C13_IgnoreSymlinks ==
    /\ []((fn = "realpath_raw" /\ "IGNORE_SYMLINKS" \in flags)
          => /\ stack = <<>>
             /\ links.cur = 0
             /\ abslink = {}
             /\ (Done /\ ret.eno = "ELOOP") => (probe = "ELOOP" \/ nstat = 1))
    /\ [][("IGNORE_SYMLINKS" \in flags /\ Name)
          => /\ nreadlink' = nreadlink + 1
             /\ NameProbe = "OK" => (pc' = "drain" /\ buf' = NameKept)
             /\ (NameProbe = "ENOENT" /\ flags = {"IGNORE_SYMLINKS"})
                => ret' = RetErr("ENOENT")]_vars

\* C13 witness: with IGNORE_SYMLINKS a call has succeeded with a result that
\* names a symlink.
C13_Witness ==
    /\ Succeeded
    /\ "IGNORE_SYMLINKS" \in flags
    /\ nreadlink > 0
    /\ KReadlink(Envs[env], buf).eno = "OK"

\* C14: getcwd is called at most once per call, only by the post-processing
\* and only when the buffer is then relative; never for an input that
\* begins with `/` nor after a symlink target that begins with `/` was
\* followed; a buffer that begins with `/` begins with `/` ever after.
C14_GetcwdOnce ==
    /\ [](fn = "realpath_raw"
          => /\ ngetcwd <= 1
             /\ (path # <<>> /\ Head(path) = SL) => ngetcwd = 0
             /\ abslink # {} => ngetcwd = 0)
    /\ [][/\ ngetcwd' # ngetcwd
             => (Post /\ ~StartsWith(buf, ROOT1) /\ ngetcwd' = ngetcwd + 1)
          /\ StartsWith(buf, ROOT1) => StartsWith(buf', ROOT1)]_vars

\* C14 witness: a relative input resolved through a symlink with an
\* absolute target, without a getcwd call.
C14_Witness ==
    /\ Succeeded
    /\ Head(path) # SL
    /\ abslink # {}
    /\ ngetcwd = 0

\* The short equivalent of an input: its root marker and its segments other
\* than `.`, joined by single slashes, with a trailing slash when the input
\* ends in `/` or `/.`.
ShortForm(p) ==
    LET root == IF TwoSlashRoot(p) THEN ROOT2 ELSE IF Head(p) = SL THEN ROOT1 ELSE <<>>
        names == SelectSeq(Segments(p), LAMBDA c : c # <<DOT>>)
        tail == IF names = <<>> THEN <<>> ELSE Drop(RefJoin(names), 1)
    IN IF names = <<>> THEN (IF root = <<>> THEN <<DOT>> ELSE root)
       ELSE root \o tail \o (IF EndsSlashOrDot(p) THEN <<SL>> ELSE <<>>)

\* C15: an input longer than the output buffer and than the scratch buffer,
\* whose short equivalent is resolved successfully in those buffers, is
\* resolved successfully to the same result.
C15_LongInput ==
    (/\ RealpathDone
     /\ Len(path) > bufcap
     /\ Len(path) > tmpcap
     /\ realpath_raw_inner(ShortForm(path), bufcap, tmpcap, flags, env).ret.tag = "ok")
    => /\ ret = realpath_raw_inner(ShortForm(path), bufcap, tmpcap, flags, env).ret
       /\ buf = realpath_raw_inner(ShortForm(path), bufcap, tmpcap, flags, env).buf

\* C15 witness: an input longer than both buffers was resolved through a
\* symlink and the working directory.
C15_Witness ==
    /\ Succeeded
    /\ Len(path) > bufcap
    /\ Len(path) > tmpcap
    /\ links.cur > 0
    /\ ngetcwd = 1
    /\ Len(buf) = bufcap

\* Every component the stack and then the input decomposer still yield.
RECURSIVE PendingComponents(_, _)
PendingComponents(stk, it) ==
    LET n == NextComponent([stack |-> stk, path_it |-> it])
    IN IF n.c = None THEN <<>>
       ELSE <<n.c>> \o PendingComponents(n.stack, n.path_it)

\* The step follows a symlink.
Followed == Probed /\ probe' = "OK" /\ pc' = "drain"

\* The target of the symlink the step reads.
LinkTarget == KReadlink(Envs[env], NameKept).t

\* The node the kernel reaches from the working directory by path p, with
\* every symlink followed.
KNode(p) ==
    KWalk(Envs[env].fs, KStart(Envs[env], p), KSplit(p), FALSE, KernelMaxSymlinks)

RECURSIVE LeadingDotDots(_)
LeadingDotDots(segs) ==
    IF segs # <<>> /\ Head(segs) = DOTDOT THEN 1 + LeadingDotDots(Tail(segs)) ELSE 0

\* The names of the n-th lexical parent of the working directory.
CwdParentNames(n) ==
    LET names == KSplit(Envs[env].cwd)
    IN IF n >= Len(names) THEN <<>> ELSE SubSeq(names, 1, Len(names) - n)

\* The n-th parent of the working directory joined to the remainder of the
\* buffer v after its n leading `..` segments, with one slash between them.
JoinedToParent(v) ==
    LET n == LeadingDotDots(Segments(v))
        keep == CwdParentNames(n)
        rest == Drop(Segments(v), n)
    IN IF keep = <<>> /\ rest = <<>> THEN ROOT1 ELSE RefJoin(keep) \o RefJoin(rest)

\* The buffer is relative and begins with a `..` component.
LeadsWithDotDot == buf = DOTDOT \/ StartsWith(buf, <<DOT, DOT, SL>>)

\* C17: when post-processing finds n >= 1 leading `..` components followed
\* by a remainder r and succeeds, the result is the n-th lexical parent of
\* the working directory (clamped at `/`) when r is empty, and otherwise
\* that parent joined to r with exactly one `/` between them.
C17_LeadingDotDot ==
    [][(Post /\ LeadsWithDotDot /\ ret'.tag = "ok") => buf' = JoinedToParent(buf)]_vars

\* The contents the engine keeps in its buffer between steps: empty, or a
\* lexically normal path other than `.`.
EngineContent(v) == v = <<>> \/ (v # <<DOT>> /\ RefNormalize(v) = v)

\* The last slash of v belongs to its root marker.
LastSlashInRoot(v) == \A j \in 1..(RPosition(v, SL) + 1) : v[j] = SL

\* The lexical parent as the claim words it.
ClaimedParent(v) ==
    IF v = DOTDOT \/ EndsWith(v, <<SL, DOT, DOT>>) THEN v \o <<SL, DOT, DOT>>
    ELSE IF ~Contains(v, SL) THEN <<>>
    ELSE IF LastSlashInRoot(v) THEN (IF TwoSlashRoot(v) THEN ROOT2 ELSE ROOT1)
    ELSE Take(v, RPosition(v, SL))

\* C18 as worded: a successful make_parent_path on contents the engine can
\* hold, the empty buffer included, leaves the claimed parent.
C18_ParentPathAsWorded ==
    [][(SvCallMakeParentPath /\ EngineContent(buf) /\ ret'.tag = "ok")
       => buf' = ClaimedParent(buf)]_vars

\* C18: a successful make_parent_path on contents the engine can hold leaves
\* the claimed parent, except that the empty buffer becomes `..`.
C18_ParentPath ==
    [][(SvCallMakeParentPath /\ EngineContent(buf) /\ ret'.tag = "ok")
       => buf' = IF buf = <<>> THEN DOTDOT ELSE ClaimedParent(buf)]_vars

\* C18 witness: the last call made `..` of the empty buffer's parent `..`.
C18_Witness ==
    /\ fn = "slicevec"
    /\ buf = <<DOT, DOT, SL, DOT, DOT>>
    /\ ret = RetOk(5)

\* C19: the length never exceeds the capacity, and a push, extend, replace
\* or insert whose resulting length would exceed the capacity returns
\* ENAMETOOLONG and leaves the contents as they were.
C19_Capacity ==
    /\ [](fn = "slicevec" => Len(buf) <= bufcap)
    /\ [][/\ \A b \in SvBytes :
                (Len(buf) + 1 > bufcap /\ SvCallPush(b))
                => (ret' = RetErr("ENAMETOOLONG") /\ buf' = buf)
           /\ \A src \in SvSrcs :
                /\ (Len(buf) + Len(src) > bufcap /\ SvCallExtendFromSlice(src))
                   => (ret' = RetErr("ENAMETOOLONG") /\ buf' = buf)
                /\ (Len(src) > bufcap /\ SvCallReplace(src))
                   => (ret' = RetErr("ENAMETOOLONG") /\ buf' = buf)
                /\ \A i \in 0..Len(buf) :
                     (Len(buf) + Len(src) > bufcap /\ SvCallInsertFromSlice(i, src))
                     => (ret' = RetErr("ENAMETOOLONG") /\ buf' = buf)]_vars

\* C19 witness: a call failed on a full buffer, which kept its contents.
C19_Witness ==
    /\ fn = "slicevec"
    /\ ret = RetErr("ENAMETOOLONG")
    /\ Len(buf) = bufcap
    /\ bufcap = MaxSvCap

\* Every component repeated next() returns, up to None.
RECURSIVE StackDrain(_)
StackDrain(stk) ==
    IF StackNext(stk).c = None THEN <<>>
    ELSE <<StackNext(stk).c>> \o StackDrain(StackNext(stk).stack)

\* Every component ComponentIter yields for a path.
RECURSIVE IterDrain(_)
IterDrain(p) ==
    IF ComponentIterNext(p).c = None THEN <<>>
    ELSE <<ComponentIterNext(p).c>> \o IterDrain(ComponentIterNext(p).rest)

\* C20: a successful push of a path puts exactly the components
\* ComponentIter yields for it in front of everything the stack still
\* yields, and next() returns these in order and then None: so after
\* pushing p1, ..., pk the stack yields the components of pk, ..., p1.
C20_StackOrder ==
    [][/\ \A p \in StackArgs :
            (StackCallPush(p) /\ ret' = RetOk(0))
            => StackDrain(stack') = IterDrain(p) \o StackDrain(stack)
       /\ StackCallNext
            => IF StackDrain(stack) = <<>>
               THEN buf' = None /\ StackDrain(stack') = <<>>
               ELSE /\ buf' = Head(StackDrain(stack))
                    /\ StackDrain(stack') = Tail(StackDrain(stack))]_vars

\* C20 witness: next() returned the name on top of a full stack of three
\* fragments, and the two fragments under it are pending.
C20_Witness ==
    /\ fn = "stack"
    /\ tmpcap = 5
    /\ buf = <<"a">>
    /\ stack = <<SL, NUL, "a">>

\* The bytes push puts on the stack for a valid path: the path without its
\* trailing slashes (an all-slash path as its root marker), and the NUL that
\* separates it from a non-empty stack.
PushedLen(stk, p) ==
    (IF strip_trailing_slashes(p) # <<>> THEN Len(strip_trailing_slashes(p))
     ELSE IF Len(p) = 2 THEN 2 ELSE 1)
    + (IF stk # <<>> THEN 1 ELSE 0)

\* C21: a push of a valid path that does not fit in the free space under the
\* cursor returns ENAMETOOLONG at every fill level, the full stack included,
\* and leaves the stack, and so what next() yields after it, unchanged.
C21_PushTooLong ==
    [][\A p \in StackArgs :
          (/\ ValidPath(p)
           /\ PushedLen(stack, p) > StackCursor(stack, tmpcap)
           /\ StackCallPush(p))
          => /\ ret' = RetErr("ENAMETOOLONG")
             /\ stack' = stack
             /\ StackDrain(stack') = StackDrain(stack)]_vars

\* C22 as worded: a target that does not fit with its separator gives
\* ENAMETOOLONG and an unchanged stack; Ok puts the complete target and its
\* separator on top of the unchanged pending bytes; a path that is not a
\* symlink gives EINVAL and an unchanged stack.
C22_PushReadlinkAsWorded ==
    [][\A rl \in ReadlinkOutcomes :
          StackCallPushReadlink(rl)
          => /\ (rl.eno = "OK" /\ Len(rl.t) + 1 > StackCursor(stack, tmpcap))
                => (ret' = RetErr("ENAMETOOLONG") /\ stack' = stack)
             /\ ret' = RetOk(0)
                => (rl.eno = "OK" /\ stack' = rl.t \o <<NUL>> \o stack)
             /\ rl.eno = "EINVAL"
                => (ret' = RetErr("EINVAL") /\ stack' = stack)]_vars

\* C22: as worded, except that with the cursor at 0 the call returns
\* ENAMETOOLONG without reading the link, whatever the path is; a path
\* that is not a symlink gives EINVAL when at least one byte is free.
C22_PushReadlink ==
    [][\A rl \in ReadlinkOutcomes :
          StackCallPushReadlink(rl)
          => /\ (rl.eno = "OK" /\ Len(rl.t) + 1 > StackCursor(stack, tmpcap))
                => (ret' = RetErr("ENAMETOOLONG") /\ stack' = stack)
             /\ ret' = RetOk(0)
                => (rl.eno = "OK" /\ stack' = rl.t \o <<NUL>> \o stack)
             /\ StackCursor(stack, tmpcap) = 0
                => (ret' = RetErr("ENAMETOOLONG") /\ stack' = stack /\ nreadlink' = 0)
             /\ (rl.eno = "EINVAL" /\ StackCursor(stack, tmpcap) > 0)
                => (ret' = RetErr("EINVAL") /\ stack' = stack /\ nreadlink' = 1)]_vars

\* C22 witness: a symlink's target was pushed on top of a pending fragment.
C22_Witness ==
    /\ fn = "stack"
    /\ ret = RetOk(0)
    /\ nreadlink = 1
    /\ stack = <<SL, "a", NUL, "a">>

\* C23: every call ends; an iteration of the drain loop either consumes one
\* pending component or follows a symlink, and a followed symlink is counted
\* against the maximum.
C23_Terminates ==
    /\ <>(pc = "done")
    /\ [][(pc = "drain" /\ pc' = "drain")
          => \/ /\ links' = links
                /\ Len(PendingComponents(stack', path_it'))
                     = Len(PendingComponents(stack, path_it)) - 1
             \/ /\ Followed
                /\ links'.cur = links.cur + 1
                /\ links'.cur <= links.max]_vars

\* C23 witness: a call in a symlink cycle ended with ELOOP after following
\* the fallback maximum of symlinks.
C23_Witness ==
    /\ RealpathDone
    /\ ret = RetErr("ELOOP")
    /\ links.cur = SYMLOOP_FALLBACK

\* C24: the retry loop of RealpathBuilder::realpath ends for every max_len;
\* it starts with min(PATH_MAX, max_len) output bytes, retries only on
\* ENAMETOOLONG below max_len and then strictly grows the buffer to
\* min(2 * length, max_len) with the scratch buffer 100 bytes longer, never
\* holds more than max_len output bytes, reports ENAMETOOLONG only with the
\* buffer at max_len, and returns every other error at once.
C24_RetryLoop ==
    /\ <>(pc = "done")
    /\ [](pc = "call" => /\ bufcap <= self_max_len
                         /\ tmpcap = bufcap + TMP_SLACK)
    /\ [](pc = "done" => bufcap <= self_max_len)
    /\ [](pc = "done" /\ ret = RetErr("ENAMETOOLONG") => bufcap = self_max_len)
    /\ [][pc = "start" =>
            /\ pc' = "call"
            /\ bufcap' = (IF PATH_MAX <= self_max_len THEN PATH_MAX ELSE self_max_len)]_vars
    /\ [][(pc = "call" /\ pc' = "call") =>
            /\ probe' = "ENAMETOOLONG"
            /\ bufcap < self_max_len
            /\ bufcap' > bufcap
            /\ bufcap' = (IF 2 * bufcap <= self_max_len THEN 2 * bufcap ELSE self_max_len)]_vars
    /\ [][(pc = "call" /\ probe' \notin {"OK", "ENAMETOOLONG"}) =>
            /\ pc' = "done"
            /\ ret' = RetErr(probe')
            /\ bufcap' = bufcap]_vars

\* The loop gave up with ENAMETOOLONG after growing 4096 -> 8192 -> 8193.
C24_Witness ==
    /\ fn = "builder"
    /\ pc = "done"
    /\ ret = RetErr("ENAMETOOLONG")
    /\ self_max_len = 2 * PATH_MAX + 1
    /\ bufcap = self_max_len
    /\ tmpcap = self_max_len + TMP_SLACK

\* The pieces of s between its slashes, the empty ones kept.
RECURSIVE SplitOnSlash(_)
SplitOnSlash(s) ==
    LET idx == Position(s, {SL})
    IN IF idx < 0 THEN <<s>>
       ELSE <<Take(s, idx)>> \o SplitOnSlash(Drop(s, idx + 1))

\* The root marker a buffer begins with: `//`, `/` or nothing.
RootOf(v) ==
    IF v = <<>> \/ Head(v) # SL THEN <<>>
    ELSE IF Len(v) >= 2 /\ v[2] = SL THEN ROOT2
    ELSE ROOT1

\* Empty, a root marker, or non-empty components joined by single slashes
\* (after a root marker or not), none of them `.`, and `..` only in a
\* leading run of a buffer without a root marker.
NormalForm(v) ==
    LET root == RootOf(v)
        comps == SplitOnSlash(Drop(v, Len(root)))
    IN \/ v \in {<<>>, ROOT1, ROOT2}
       \/ \A i \in 1..Len(comps) :
              /\ comps[i] # <<>>
              /\ comps[i] # <<DOT>>
              /\ ~Contains(comps[i], NUL)
              /\ comps[i] = DOTDOT =>
                     /\ root = <<>>
                     /\ \A j \in 1..(i - 1) : comps[j] = DOTDOT

\* C25: at the start of every iteration of the drain loop, and when the
\* loop is left, the buffer is in normal form.
C25_NormalForm == (fn = "realpath_raw" /\ pc = "drain") => NormalForm(buf)

\* The loop is left with `..` and a name in the buffer.
C25_Witness ==
    /\ fn = "realpath_raw"
    /\ pc = "drain"
    /\ NextKind = "none"
    /\ buf = <<DOT, DOT, SL, "a">>

\* The loop of normpath_raw run from `rest` with buffer v of cap bytes never
\* fails and never holds more bytes than the input bytes consumed so far.
RECURSIVE NormWithinConsumed(_, _, _, _)
NormWithinConsumed(p, rest, v, cap) ==
    /\ Len(v) <= Len(p) - Len(rest)
    /\ With(ComponentIterNext(rest), LAMBDA n :
           \/ n.c = None
           \/ With(CASE Kind(n.c) = "root" -> SvReplace(v, cap, n.c)
                     [] Kind(n.c) = "dotdot" -> make_parent_path(v, cap)
                     [] OTHER -> NormAppend(v, cap, n.c),
                   LAMBDA r : r.ok /\ NormWithinConsumed(p, n.rest, r.v, cap)))

\* C26: for a non-empty input without NUL, normpath_raw with a buffer as
\* long as the input succeeds, the buffer never longer than the input
\* bytes consumed; normpath never fails with ENAMETOOLONG.
C26_InputLengthSuffices ==
    /\ (fn = "normpath" /\ pc = "done") => ret # RetErr("ENAMETOOLONG")
    /\ (fn = "normpath" /\ pc = "done" /\ ValidPath(path)) =>
           /\ bufcap = Len(path)
           /\ ret = RetOk(Len(buf))
           /\ Len(buf) <= bufcap
           /\ NormWithinConsumed(path, path, <<>>, bufcap)

\* The result fills the whole buffer.
C26_Witness ==
    /\ fn = "normpath"
    /\ pc = "done"
    /\ path = <<DOT, DOT, SL, DOT, DOT>>
    /\ bufcap = 5
    /\ ret = RetOk(5)
    /\ buf = path

\* What a probe may answer in the file systems C27 speaks of.
LexicalProbes == {"NONE", "OK", "EINVAL", "ENOENT", "EACCES", "ENOTDIR"}

\* C27: for an input beginning with `/`, with ALLOW_MISSING and
\* IGNORE_SYMLINKS and large buffers, realpath_raw returns what normpath_raw
\* returns for the same input, whatever the file system holds, as long as
\* its probes answer only success, EINVAL, ENOENT, EACCES or ENOTDIR.
C27_LexicalAgreement ==
    (/\ RealpathDone
     /\ flags = {"ALLOW_MISSING", "IGNORE_SYMLINKS"}
     /\ path # <<>>
     /\ Head(path) = SL
     /\ probe \in LexicalProbes)
    => /\ ret = normpath_raw(path, bufcap).ret
       /\ buf = normpath_raw(path, bufcap).buf

\* The name a is a symlink in this file system and still is kept as a name.
C27_Witness ==
    /\ RealpathDone
    /\ flags = {"ALLOW_MISSING", "IGNORE_SYMLINKS"}
    /\ path = <<SL, "a", SL, "b">>
    /\ Envs[env].fs = "rel"
    /\ nreadlink = 2
    /\ ret = RetOk(4)
    /\ buf = path

====
